---- MODULE Spec2Model ----
(***************************************************************************)
(* A model of the IPC core of tinyos: the pipe engine (kernel_pipe.c) and  *)
(* the socket engine (kernel_socket.c).                                    *)
(*                                                                         *)
(* The kernel is cooperative: a system call runs without interruption from *)
(* its entry, or from the point where it is resumed, to its return or to   *)
(* its next kernel_wait / kernel_timedwait.  Each such stretch of code is  *)
(* one action.  A thread that sleeps on a condition variable is "wait_*";  *)
(* kernel_signal / kernel_broadcast make it "ready_*" (runnable); the      *)
(* *_resume action is the scheduler running it again.                      *)
(***************************************************************************)
EXTENDS Integers, Sequences, FiniteSets, TLC

\* ------------------------------------------------------------------ bounds
\* The ring has PIPE_BUFFER_SIZE nodes (32768 in kernel_streams.h:5); the
\* model keeps the algorithm and shrinks the ring so that it fills and wraps.
PIPE_BUFFER_SIZE == 2
\* The longest buffer handed to pipe_write, and the largest n of pipe_read:
\* one more than the ring holds, so that a call can ask for more than fits.
MaxN == PIPE_BUFFER_SIZE + 1
\* pipe_write is called only while the bytes accepted so far plus the bytes
\* offered stay within MaxWritten: enough for the ring to fill and to wrap.
MaxWritten == PIPE_BUFFER_SIZE + 1
\* The process file table has MAX_FILEID entries and the port table MAX_PORT
\* (tinyos.h); the model shrinks both so that they run out.
MAX_FILEID == 3
MAX_PORT == 2

NULL == -1

\* The byte values; 0 is '\0', the value of an empty ring node.
Bytes == {0, 1}
Nodes == 0..(PIPE_BUFFER_SIZE - 1)
\* The pipe_cb objects that init_pipe_obj can allocate, in this order.
PIPES == 1..4
Writers == {"w1", "w2"}
Readers == {"r1", "r2"}
PipeThreads == Writers \cup Readers

Min(a, b) == IF a < b THEN a ELSE b

RECURSIVE SeqsUpTo(_)
SeqsUpTo(k) == IF k = 0 THEN {<<>>}
               ELSE LET S == SeqsUpTo(k - 1)
                    IN S \cup {Append(s, b) : s \in {x \in S : Len(x) = k - 1}, b \in Bytes}

Bufs == SeqsUpTo(MaxN)

\* The socket_cb and connection_request objects that can be allocated, in
\* this order: an object's number is never used again.
SOCKS == 1..4
REQS == 1..2
AccThreads == {"a1", "a2"}
ConnThreads == {"c1", "c2"}
SockThreads == AccThreads \cup ConnThreads
NOPORT == 0
NOFILE == -1
Fids == 0..(MAX_FILEID - 1)
\* The entries of PORT_MAP, and the word behind its last entry, which is what
\* PORT_MAP[MAX_PORT] names.
Ports == 0..MAX_PORT

\* The PTCB objects that can be allocated, in this order; a Tid_t is the
\* address of a PTCB, and 0 is the address of none.
PTCBS == 1..3
Tids == 0..3
\* Exit values, and the <<argl, args>> handed to CreateThread.
ExitVals == {0, 42}
TaskArgs == {<<0, NULL>>, <<8, 1>>}

VARIABLES
    pipes,      \* pipe_cb objects: PIPES -> record
    socks,      \* socket_cb objects: SOCKS -> record
    reqs,       \* connection_request objects: REQS -> record
    PORT_MAP,   \* the port table: Ports -> socket or NULL
    FT,         \* the file table of the process: fid -> the stream object of its FCB, or NULL
    sth,        \* per thread: the frame of its sys_Accept / sys_Connect call
    ub,         \* "none", or the undefined behaviour the kernel has run into
    pth,        \* per thread: the frame of its pipe_read / pipe_write call
    wlog,       \* history: per pipe, the bytes accepted by pipe_write, in call order
    rlog,       \* history: per pipe, the bytes returned by pipe_read, in call order
    ev,         \* history: the call that returned last, and what it returned
    ptcbs,      \* PTCB objects of the process, each with the position of its thread
    ptcb_list,  \* ptcb_list of the process: the PTCBs linked in it, in order
    thread_count \* thread_count of the process

sockvars == <<socks, reqs, PORT_MAP, FT, sth, ub>>
thrvars == <<ptcbs, ptcb_list, thread_count>>
vars == <<pipes, socks, reqs, PORT_MAP, FT, sth, ub, pth, wlog, rlog, ev,
          ptcbs, ptcb_list, thread_count>>

\* ------------------------------------------------------------------ pipe_cb
\* c_node list built by init_list(PIPE_BUFFER_SIZE, NULL): a ring of nodes,
\* every c == '\0'; node i's next is node (i+1) mod size.
init_list == [i \in Nodes |-> 0]

\* As next, but the last node of the list is not linked back to the head.
next_unlinked(node) == IF node + 1 < PIPE_BUFFER_SIZE THEN node + 1 ELSE node

next(node) == (node + 1) % PIPE_BUFFER_SIZE

\* init_pipe_obj followed by the wiring of reader/writer done by its caller.
init_pipe_obj(rd, wr) ==
    [ alloc         |-> TRUE,
      freed         |-> FALSE,
      reader        |-> rd,
      writer        |-> wr,
      BUFFER        |-> init_list,
      r_position    |-> 0,
      w_position    |-> 0,
      written_bytes |-> 0 ]

\* A pipe_cb that init_pipe_obj has not allocated yet.
NoPipe == [init_pipe_obj(NULL, NULL) EXCEPT !.alloc = FALSE]

\* The pipe p is an object in memory.
live(p) == pipes[p].alloc /\ ~pipes[p].freed

\* A frame with no call in progress.
IdleFrame == [pc |-> "idle", pipe |-> 1, buf |-> <<>>, n |-> 0, availableSpace |-> 0]

\* The record of a return: thread t's call of op, asked for n bytes, returned ret.
Returned(t, op, n, ret) == [t |-> t, op |-> op, n |-> n, ret |-> ret]

\* ------------------------------------------------------------------ condition variables
\* kernel_broadcast(cv): every thread sleeping on cv becomes runnable.
kernel_broadcast(f, p, waitpc, readypc) ==
    [t \in DOMAIN f |->
        IF f[t].pc = waitpc /\ f[t].pipe = p THEN [f[t] EXCEPT !.pc = readypc] ELSE f[t]]

\* ------------------------------------------------------------------ pipe_write
\* The copy loop of pipe_write (lines 179-186), from byte i of buf on, k bytes
\* in all: a node that is not '\0' ends the call with -1, the bytes copied so
\* far staying in the ring.
RECURSIVE write_loop(_, _, _, _)
write_loop(P, buf, i, k) ==
    IF i > k THEN [pipe |-> P, ret |-> k]
    ELSE IF P.BUFFER[P.w_position] # 0 THEN [pipe |-> P, ret |-> -1]
    ELSE write_loop([P EXCEPT !.BUFFER[P.w_position] = buf[i],
                              !.w_position = next(P.w_position),
                              !.written_bytes = P.written_bytes + 1],
                    buf, i + 1, k)

\* As bytes_to_write, not looking at the space left.
bytes_to_write_all(n, availableSpace) == n

\* (n < availableSpace) ? n : availableSpace
bytes_to_write(n, availableSpace) == IF n < availableSpace THEN n ELSE availableSpace

\* As write_must_wait, without the test of the reader.
write_must_wait_full_only(P, availableSpace) == availableSpace = 0

\* Whether the wait loop of pipe_write (line 165) goes to sleep (again).
write_must_wait(P, availableSpace) == availableSpace = 0 /\ P.reader # NULL

\* pipe_write from the test of its wait loop to its return or its sleep;
\* availableSpace is the local computed once at line 164.
write_from_loop(t, p, buf, availableSpace) ==
    LET P == pipes[p]
        fr == [pth[t] EXCEPT !.pipe = p, !.buf = buf, !.n = Len(buf),
                             !.availableSpace = availableSpace]
    IN  IF write_must_wait(P, availableSpace)
        THEN /\ pth' = [pth EXCEPT ![t] = [fr EXCEPT !.pc = "wait_space"]]
             /\ UNCHANGED <<pipes, wlog, rlog, ev, sockvars, thrvars>>
        ELSE IF P.reader = NULL
        THEN /\ pth' = [pth EXCEPT ![t] = IdleFrame]
             /\ ev' = Returned(t, "write", Len(buf), -1)
             /\ UNCHANGED <<pipes, wlog, rlog, sockvars, thrvars>>
        ELSE LET r == write_loop(P, buf, 1, bytes_to_write(Len(buf), availableSpace))
             IN  IF r.ret = -1
                 THEN /\ pipes' = [pipes EXCEPT ![p] = r.pipe]
                      /\ pth' = [pth EXCEPT ![t] = IdleFrame]
                      /\ ev' = Returned(t, "write", Len(buf), -1)
                      /\ UNCHANGED <<wlog, rlog, sockvars, thrvars>>
                 ELSE /\ pipes' = [pipes EXCEPT ![p] = r.pipe]
                      /\ pth' = kernel_broadcast([pth EXCEPT ![t] = IdleFrame],
                                                 p, "wait_data", "ready_data")
                      /\ ev' = Returned(t, "write", Len(buf), r.ret)
                      /\ wlog' = [wlog EXCEPT ![p] = @ \o SubSeq(buf, 1, r.ret)]
                      /\ UNCHANGED <<rlog, sockvars, thrvars>>

\* A call of pipe_write(p, buf, Len(buf)) by thread t, up to its return or sleep.
pipe_write(t, p, buf) ==
    /\ pth[t].pc = "idle"
    /\ live(p)
    /\ Len(wlog[p]) + Len(buf) <= MaxWritten
    /\ IF pipes[p].writer = NULL \/ pipes[p].reader = NULL
       THEN /\ ev' = Returned(t, "write", Len(buf), -1)
            /\ UNCHANGED <<pipes, pth, wlog, rlog, sockvars, thrvars>>
       ELSE write_from_loop(t, p, buf, PIPE_BUFFER_SIZE - pipes[p].written_bytes)

\* The scheduler resumes a writer that was woken from has_space.
pipe_write_resume(t) ==
    /\ pth[t].pc = "ready_space"
    /\ write_from_loop(t, pth[t].pipe, pth[t].buf, pth[t].availableSpace)

\* ------------------------------------------------------------------ pipe_read
\* The copy loop of pipe_read (lines 231-236): k bytes out of the ring, each
\* node read is reset to '\0'.
RECURSIVE read_loop(_, _, _)
read_loop(P, out, k) ==
    IF k = 0 THEN [pipe |-> P, out |-> out]
    ELSE read_loop([P EXCEPT !.BUFFER[P.r_position] = 0,
                             !.r_position = next(P.r_position),
                             !.written_bytes = P.written_bytes - 1],
                   Append(out, P.BUFFER[P.r_position]), k - 1)

\* As bytes_to_read, not looking at the bytes present.
bytes_to_read_all(n, written_bytes) == n

\* (n < written_bytes) ? n : written_bytes
bytes_to_read(n, written_bytes) == IF n < written_bytes THEN n ELSE written_bytes

\* As read_must_wait, without the test of the writer.
read_must_wait_empty_only(P) == P.written_bytes = 0

\* Whether the wait loop of pipe_read (line 217) goes to sleep (again).
read_must_wait(P) == P.written_bytes = 0 /\ P.writer # NULL

\* pipe_read from the test of its wait loop to its return or its sleep.
read_from_loop(t, p, n) ==
    LET P == pipes[p]
        fr == [pth[t] EXCEPT !.pipe = p, !.n = n]
    IN  IF read_must_wait(P)
        THEN /\ pth' = [pth EXCEPT ![t] = [fr EXCEPT !.pc = "wait_data"]]
             /\ UNCHANGED <<pipes, wlog, rlog, ev, sockvars, thrvars>>
        ELSE IF P.writer = NULL /\ P.written_bytes = 0
        THEN /\ pth' = [pth EXCEPT ![t] = IdleFrame]
             /\ ev' = Returned(t, "read", n, 0)
             /\ UNCHANGED <<pipes, wlog, rlog, sockvars, thrvars>>
        ELSE LET k == bytes_to_read(n, P.written_bytes)
                 r == read_loop(P, <<>>, k)
             IN  /\ pipes' = [pipes EXCEPT ![p] = r.pipe]
                 /\ pth' = kernel_broadcast([pth EXCEPT ![t] = IdleFrame],
                                            p, "wait_space", "ready_space")
                 /\ ev' = Returned(t, "read", n, k)
                 /\ rlog' = [rlog EXCEPT ![p] = @ \o r.out]
                 /\ UNCHANGED <<wlog, sockvars, thrvars>>

\* A call of pipe_read(p, buf, n) by thread t, up to its return or sleep.
pipe_read(t, p, n) ==
    /\ pth[t].pc = "idle"
    /\ live(p)
    /\ IF pipes[p].reader = NULL
       THEN /\ ev' = Returned(t, "read", n, -1)
            /\ UNCHANGED <<pipes, pth, wlog, rlog, sockvars, thrvars>>
       ELSE read_from_loop(t, p, n)

\* The scheduler resumes a reader that was woken from has_data.
pipe_read_resume(t) ==
    /\ pth[t].pc = "ready_data"
    /\ read_from_loop(t, pth[t].pipe, pth[t].n)

\* ------------------------------------------------------------------ close
\* No thread is inside pipe_read (pc "data") or pipe_write (pc "space") on p:
\* the stream layer calls the Close of an FCB only when no call through that
\* FCB is in progress.
no_call_in(p, waitpc, readypc) ==
    \A t \in DOMAIN pth : ~(pth[t].pc \in {waitpc, readypc} /\ pth[t].pipe = p)

\* As writer_closed, with the pipe freed whatever the reader is.
writer_closed_eager(P) == [P EXCEPT !.writer = NULL, !.freed = TRUE]

\* The pipe after pipe_writer_close has set writer to NULL (lines 263-268).
writer_closed(P) ==
    IF P.reader = NULL THEN [P EXCEPT !.writer = NULL, !.freed = TRUE]
    ELSE [P EXCEPT !.writer = NULL]

pipe_writer_close(t, p) ==
    /\ live(p)
    /\ no_call_in(p, "wait_space", "ready_space")
    /\ IF pipes[p].writer = NULL
       THEN /\ ev' = Returned(t, "writer_close", 0, -1)
            /\ UNCHANGED <<pipes, pth, wlog, rlog, sockvars, thrvars>>
       ELSE /\ pipes' = [pipes EXCEPT ![p] = writer_closed(pipes[p])]
            /\ pth' = IF pipes[p].reader = NULL THEN pth
                      ELSE kernel_broadcast(pth, p, "wait_data", "ready_data")
            /\ ev' = Returned(t, "writer_close", 0, 0)
            /\ UNCHANGED <<wlog, rlog, sockvars, thrvars>>

\* The pipe after pipe_reader_close has set reader to NULL (lines 284-289).
reader_closed(P) ==
    IF P.writer = NULL THEN [P EXCEPT !.reader = NULL, !.freed = TRUE]
    ELSE [P EXCEPT !.reader = NULL]

\* As pipe_reader_close, without the broadcast of has_space.
pipe_reader_close_silent(t, p) ==
    /\ live(p)
    /\ no_call_in(p, "wait_data", "ready_data")
    /\ IF pipes[p].reader = NULL
       THEN /\ ev' = Returned(t, "reader_close", 0, -1)
            /\ UNCHANGED <<pipes, pth, wlog, rlog, sockvars, thrvars>>
       ELSE /\ pipes' = [pipes EXCEPT ![p] = reader_closed(pipes[p])]
            /\ ev' = Returned(t, "reader_close", 0, 0)
            /\ UNCHANGED <<pth, wlog, rlog, sockvars, thrvars>>

pipe_reader_close(t, p) ==
    /\ live(p)
    /\ no_call_in(p, "wait_data", "ready_data")
    /\ IF pipes[p].reader = NULL
       THEN /\ ev' = Returned(t, "reader_close", 0, -1)
            /\ UNCHANGED <<pipes, pth, wlog, rlog, sockvars, thrvars>>
       ELSE /\ pipes' = [pipes EXCEPT ![p] = reader_closed(pipes[p])]
            /\ pth' = IF pipes[p].writer = NULL THEN pth
                      ELSE kernel_broadcast(pth, p, "wait_space", "ready_space")
            /\ ev' = Returned(t, "reader_close", 0, 0)
            /\ UNCHANGED <<wlog, rlog, sockvars, thrvars>>

\* ------------------------------------------------------------------ sockets
\* A socket_cb that has not been allocated yet.
NoSock == [alloc |-> FALSE, freed |-> FALSE, fcb |-> NULL, refcount |-> 0,
           type |-> "UNBOUND", port |-> NOPORT, queue |-> <<>>,
           read_pipe |-> NULL, write_pipe |-> NULL]

NoReq == [alloc |-> FALSE, admitted |-> 0, peer |-> NULL, to |-> NULL]

IdleSock == [pc |-> "idle", listener |-> NULL, request |-> NULL, timed |-> FALSE]

\* The kernel after boot: no socket, no request, an empty port table and an
\* empty file table.
NoSockets ==
    /\ socks = [s \in SOCKS |-> NoSock]
    /\ reqs = [r \in REQS |-> NoReq]
    /\ PORT_MAP = [q \in Ports |-> NULL]
    /\ FT = [f \in Fids |-> NULL]
    /\ sth = [t \in SockThreads |-> IdleSock]
    /\ ub = "none"

\* The variables the socket calls leave alone when they touch no pipe.
pipevars == <<pipes, pth, wlog, rlog>>

\* get_fcb(fid), followed by ->streamobj: the socket behind the descriptor,
\* NULL when fid is not a descriptor of the process.
get_fcb(fid) == IF fid \in Fids THEN FT[fid] ELSE NULL

\* FCB_reserve(1, &fid, &fcb): a descriptor that is not in use, the lowest;
\* NOFILE when all are.
FCB_reserve ==
    LET free == {f \in Fids : FT[f] = NULL}
    IN  IF free = {} THEN NOFILE ELSE CHOOSE f \in free : \A g \in free : f <= g

\* xmalloc of a socket_cb, of a connection_request, of a pipe_cb: the objects
\* not handed out yet.
FreeSocks == {x \in SOCKS : ~socks[x].alloc}
FreeReqs == {r \in REQS : ~reqs[r].alloc}
FreePipes == {p \in PIPES : ~pipes[p].alloc}
Lowest(S) == CHOOSE x \in S : \A y \in S : x <= y

init_socket_cb(parent_fcb) ==
    [alloc |-> TRUE, freed |-> FALSE, fcb |-> parent_fcb, refcount |-> 0,
     type |-> "UNBOUND", port |-> NOPORT, queue |-> <<>>,
     read_pipe |-> NULL, write_pipe |-> NULL]

\* The test of sys_Socket on its argument (line 39).
port_is_valid(port) == ~(port < 0 \/ port > MAX_PORT)

\* The steps below are taken by a thread that runs; the kernel that has run
\* into undefined behaviour takes none.
Running == ub = "none"

\* A call that returns ret at once and changes nothing.
fails(t, op, n, ret) ==
    /\ ev' = Returned(t, op, n, ret)
    /\ UNCHANGED <<sockvars, pipevars, thrvars>>

\* The kernel runs into undefined behaviour: what it does next is not defined.
undefined(kind) ==
    /\ ub' = kind
    /\ UNCHANGED <<pipes, socks, reqs, PORT_MAP, FT, sth, pth, wlog, rlog, ev, thrvars>>

\* sys_Socket(port)
sys_Socket(port) ==
    /\ Running
    /\ FreeSocks # {}
    /\ IF ~port_is_valid(port) \/ FCB_reserve = NOFILE
       THEN fails("main", "Socket", 0, NOFILE)
       ELSE LET fid == FCB_reserve
                x == Lowest(FreeSocks)
            IN  /\ socks' = [socks EXCEPT ![x] = [init_socket_cb(fid) EXCEPT !.port = port]]
                /\ FT' = [FT EXCEPT ![fid] = x]
                /\ ev' = Returned("main", "Socket", 0, fid)
                /\ UNCHANGED <<reqs, PORT_MAP, sth, ub, pipevars, thrvars>>

\* sys_Listen(sock).  A socket bound to port MAX_PORT makes lines 81 and 93
\* read and write the word behind the table: the read finds NULL or not, and
\* the write lands in that word or breaks something else.
sys_Listen(sock) ==
    /\ Running
    /\ IF get_fcb(sock) = NULL
       THEN fails("main", "Listen", 0, -1)
       ELSE LET x == get_fcb(sock)
            IN  IF socks[x].port = NOPORT
                THEN fails("main", "Listen", 0, -1)
                ELSE \/ /\ socks[x].port = MAX_PORT
                        /\ \/ undefined("out_of_bounds")
                           \/ fails("main", "Listen", 0, -1)
                     \/ IF PORT_MAP[socks[x].port] # NULL \/ socks[x].type # "UNBOUND"
                        THEN fails("main", "Listen", 0, -1)
                        ELSE /\ PORT_MAP' = [PORT_MAP EXCEPT ![socks[x].port] = x]
                             /\ socks' = [socks EXCEPT ![x].type = "LISTENER", ![x].queue = <<>>]
                             /\ ev' = Returned("main", "Listen", 0, 0)
                             /\ UNCHANGED <<reqs, FT, sth, ub, pipevars, thrvars>>

\* kernel_signal(cv): one of the threads that sleep on cv, when there is one,
\* becomes runnable.
signalled(waiters) == IF waiters = {} THEN {"nobody"} ELSE waiters

\* The threads that sleep in sys_Accept on the req_available of listener x.
accept_sleepers(x) == {a \in SockThreads : sth[a].pc = "wait_req" /\ sth[a].listener = x}

\* The test of sys_Accept after its wait loop (line 144): the socket is no
\* longer a listener installed under its port.
listener_is_gone(S, x) == S[x].type # "LISTENER" \/ PORT_MAP[S[x].port] # x

\* As pop_front, taking the request that was pushed last.
pop_back(q) == [req |-> q[Len(q)], rest |-> SubSeq(q, 1, Len(q) - 1)]

\* rlist_pop_front on the request queue (line 150).
pop_front(q) == [req |-> Head(q), rest |-> Tail(q)]

\* is_rlist_empty on the request queue (line 136): the results the test can
\* give.  A socket promoted to a peer holds its pipes where its queue was (the
\* union of kernel_socket.h, lines 57-61), and the test reads them as a list
\* head.
is_rlist_empty(s) == IF s.type = "PEER" THEN BOOLEAN ELSE {s.queue = <<>>}

\* As peers_wired, the requesting socket given the pipes the way round the new
\* socket has them.
peers_wired_uncrossed(S, n, c, pipe1, pipe2) ==
    [S EXCEPT ![n].type = "PEER", ![n].read_pipe = pipe1, ![n].write_pipe = pipe2,
              ![c].type = "PEER", ![c].read_pipe = pipe1, ![c].write_pipe = pipe2]

\* Lines 168-169 and 181-184: the new socket n and the requesting socket c
\* become peers, each reading the pipe the other writes.
peers_wired(S, n, c, pipe1, pipe2) ==
    [S EXCEPT ![n].type = "PEER", ![n].read_pipe = pipe1, ![n].write_pipe = pipe2,
              ![c].type = "PEER", ![c].read_pipe = pipe2, ![c].write_pipe = pipe1]

\* sys_Accept from the test of its wait loop (line 136) on; S is the socket
\* table as the code before the loop has left it.
accept_from_loop(t, x, S) ==
    \E empty \in is_rlist_empty(S[x]) :
    IF empty
    THEN /\ socks' = S
         /\ sth' = [sth EXCEPT ![t] = [IdleSock EXCEPT !.pc = "wait_req", !.listener = x]]
         /\ UNCHANGED <<reqs, PORT_MAP, FT, ub, ev, pipevars, thrvars>>
    ELSE IF listener_is_gone(S, x)
    THEN /\ socks' = S
         /\ sth' = [sth EXCEPT ![t] = IdleSock]
         /\ ev' = Returned(t, "Accept", 0, -1)
         /\ UNCHANGED <<reqs, PORT_MAP, FT, ub, pipevars, thrvars>>
    ELSE LET popped == pop_front(S[x].queue)
             r == popped.req
             c == reqs[r].peer
             S1 == [S EXCEPT ![x].queue = popped.rest]
             peer_fid == FCB_reserve
         IN  IF peer_fid = NOFILE
             THEN /\ socks' = S1
                  /\ reqs' = [reqs EXCEPT ![r].admitted = 1]
                  /\ sth' = [sth EXCEPT ![t] = IdleSock]
                  /\ ev' = Returned(t, "Accept", 0, -1)
                  /\ UNCHANGED <<PORT_MAP, FT, ub, pipevars, thrvars>>
             ELSE /\ FreeSocks # {}
                  /\ Cardinality(FreePipes) >= 2
                  /\ LET n == Lowest(FreeSocks)
                         pipe1 == Lowest(FreePipes)
                         pipe2 == Lowest(FreePipes \ {pipe1})
                         S2 == [S1 EXCEPT ![n] = [init_socket_cb(peer_fid) EXCEPT
                                                     !.port = S[x].port]]
                         S3 == IF S[c].freed
                               THEN [S2 EXCEPT ![n].type = "PEER", ![n].read_pipe = pipe1,
                                               ![n].write_pipe = pipe2]
                               ELSE peers_wired(S2, n, c, pipe1, pipe2)
                     IN  \/ /\ socks' = [S3 EXCEPT ![x].refcount = @ - 1]
                            /\ reqs' = [reqs EXCEPT ![r].admitted = 1]
                            /\ FT' = [FT EXCEPT ![peer_fid] = n]
                            /\ pipes' = [pipes EXCEPT
                                            ![pipe1] = init_pipe_obj(peer_fid, S[c].fcb),
                                            ![pipe2] = init_pipe_obj(S[c].fcb, peer_fid)]
                            /\ sth' = [u \in SockThreads |->
                                         IF u = t THEN IdleSock
                                         ELSE IF sth[u].pc = "wait_conn" /\ sth[u].request = r
                                         THEN [sth[u] EXCEPT !.pc = "ready_conn"]
                                         ELSE sth[u]]
                            /\ ev' = Returned(t, "Accept", 0, peer_fid)
                            /\ UNCHANGED <<PORT_MAP, ub, pth, wlog, rlog, thrvars>>
                         \* the requesting socket was closed and freed: lines
                         \* 168-184 write into freed memory
                         \/ /\ S[c].freed
                            /\ undefined("use_after_free")

\* sys_Accept(lsock), called by thread t, up to its return or its sleep.
sys_Accept(t, lsock) ==
    /\ Running
    /\ sth[t].pc = "idle"
    /\ IF get_fcb(lsock) = NULL
       THEN fails(t, "Accept", 0, -1)
       ELSE LET x == get_fcb(lsock)
            IN  IF socks[x].type # "LISTENER"
                THEN fails(t, "Accept", 0, -1)
                ELSE accept_from_loop(t, x, [socks EXCEPT ![x].refcount = @ + 1])

\* The scheduler resumes an acceptor that was woken from req_available.
sys_Accept_resume(t) ==
    /\ Running
    /\ sth[t].pc = "ready_req"
    /\ accept_from_loop(t, sth[t].listener, socks)

\* The test of sys_Connect on its port argument (line 215).
port_is_illegal(port) == port <= NOPORT \/ port > MAX_PORT - 1

\* sys_Connect(sock, port, timeout), called by thread t, up to its return or
\* its sleep; timed says that timeout is not negative.  With no socket under
\* the port, the fprintf of line 222 reads PORT_MAP[port]->type through NULL.
sys_Connect(t, sock, port, timed) ==
    /\ Running
    /\ sth[t].pc = "idle"
    /\ IF get_fcb(sock) = NULL \/ port_is_illegal(port)
       THEN fails(t, "Connect", 0, -1)
       ELSE IF PORT_MAP[port] = NULL
       THEN \/ fails(t, "Connect", 0, -1)
            \/ undefined("null_dereference")
       ELSE IF socks[PORT_MAP[port]].freed
       THEN \/ fails(t, "Connect", 0, -1)
            \/ undefined("use_after_free")
       ELSE IF socks[PORT_MAP[port]].type # "LISTENER"
       THEN fails(t, "Connect", 0, -1)
       ELSE /\ FreeReqs # {}
            /\ LET x == PORT_MAP[port]
                   r == Lowest(FreeReqs)
               IN  \E w \in signalled(accept_sleepers(x)) :
                      /\ socks' = [socks EXCEPT ![x].refcount = @ + 1,
                                                ![x].queue = Append(@, r)]
                      /\ reqs' = [reqs EXCEPT ![r] = [alloc |-> TRUE, admitted |-> 0,
                                                      peer |-> get_fcb(sock), to |-> x]]
                      /\ sth' = [u \in SockThreads |->
                                   IF u = t THEN [pc |-> "wait_conn", listener |-> x,
                                                  request |-> r, timed |-> timed]
                                   ELSE IF u = w THEN [sth[u] EXCEPT !.pc = "ready_req"]
                                   ELSE sth[u]]
                      /\ UNCHANGED <<PORT_MAP, FT, ub, ev, pipevars, thrvars>>

\* The timeout of kernel_timedwait expires: the sleeping connector becomes
\* runnable.
Connect_timeout(t) ==
    /\ Running
    /\ sth[t].pc = "wait_conn"
    /\ sth[t].timed
    /\ sth' = [sth EXCEPT ![t].pc = "ready_conn"]
    /\ UNCHANGED <<socks, reqs, PORT_MAP, FT, ub, ev, pipevars, thrvars>>

\* As connect_result, not looking at the request.
connect_result_ok(admitted) == 0

\* What sys_Connect returns (line 252).
connect_result(admitted) == IF admitted = 1 THEN 0 ELSE -1

\* The scheduler resumes a connector after kernel_timedwait (lines 247-252).
sys_Connect_resume(t) ==
    /\ Running
    /\ sth[t].pc = "ready_conn"
    /\ socks' = [socks EXCEPT ![sth[t].listener].refcount = @ - 1]
    /\ sth' = [sth EXCEPT ![t] = IdleSock]
    /\ ev' = Returned(t, "Connect", 0, connect_result(reqs[sth[t].request].admitted))
    /\ UNCHANGED <<reqs, PORT_MAP, FT, ub, pipevars, thrvars>>

\* pipe_reader_close / pipe_writer_close as socket_close calls them: on the
\* pipe table PP and the frames F, giving both back.
closed_reader(PF, p) ==
    IF p = NULL \/ PF.pipes[p].reader = NULL THEN PF
    ELSE [pipes |-> [PF.pipes EXCEPT ![p] = reader_closed(PF.pipes[p])],
          pth |-> IF PF.pipes[p].writer = NULL THEN PF.pth
                  ELSE kernel_broadcast(PF.pth, p, "wait_space", "ready_space")]

\* pipe_writer_close without its broadcast.
closed_writer_quiet(PF, p) ==
    IF p = NULL \/ PF.pipes[p].writer = NULL THEN PF
    ELSE [pipes |-> [PF.pipes EXCEPT ![p] = writer_closed(PF.pipes[p])],
          pth |-> PF.pth]

closed_writer(PF, p) ==
    IF p = NULL \/ PF.pipes[p].writer = NULL THEN PF
    ELSE [pipes |-> [PF.pipes EXCEPT ![p] = writer_closed(PF.pipes[p])],
          pth |-> IF PF.pipes[p].reader = NULL THEN PF.pth
                  ELSE kernel_broadcast(PF.pth, p, "wait_data", "ready_data")]

\* free(socket) when nothing counts a reference to it (lines 369-371).
\* Nothing of a freed socket_cb but the address of its FCB is kept: what the
\* freed memory holds is not defined.
released(S, x) ==
    IF S[x].refcount = 0
    THEN [S EXCEPT ![x] = [NoSock EXCEPT !.alloc = TRUE, !.freed = TRUE, !.fcb = S[x].fcb]]
    ELSE S

\* socket_close(socket) on socket x, followed by the release of its FCB and
\* descriptor fid by the stream layer.
socket_close(fid, x) ==
    /\ FT' = [FT EXCEPT ![fid] = NULL]
    /\ ev' = Returned("main", "Close", 0, 0)
    /\ UNCHANGED <<reqs, ub, wlog, rlog, thrvars>>
    /\ CASE socks[x].type = "UNBOUND" ->
              /\ socks' = released(socks, x)
              /\ UNCHANGED <<PORT_MAP, sth, pipes, pth>>
         [] socks[x].type = "LISTENER" ->
              /\ PORT_MAP' = [PORT_MAP EXCEPT ![socks[x].port] = NULL]
              /\ sth' = [u \in SockThreads |->
                           IF u \in accept_sleepers(x)
                           THEN [sth[u] EXCEPT !.pc = "ready_req"] ELSE sth[u]]
              /\ socks' = released(socks, x)
              /\ UNCHANGED <<pipes, pth>>
         [] socks[x].type = "PEER" ->
              LET PF == closed_writer(closed_reader([pipes |-> pipes, pth |-> pth],
                                                    socks[x].read_pipe),
                                      socks[x].write_pipe)
              IN  /\ pipes' = PF.pipes
                  /\ pth' = PF.pth
                  /\ socks' = released([socks EXCEPT ![x].read_pipe = NULL,
                                                     ![x].write_pipe = NULL], x)
                  /\ UNCHANGED <<PORT_MAP, sth>>

\* No thread is inside a Read or a Write through the descriptor of socket x:
\* the stream layer calls the Close of an FCB only when no call through that
\* FCB is in progress.
no_call_through(x) ==
    /\ no_call_in(socks[x].read_pipe, "wait_data", "ready_data")
    /\ no_call_in(socks[x].write_pipe, "wait_space", "ready_space")

\* Close(fid) on a socket descriptor.
sys_Close(fid) ==
    /\ Running
    /\ IF get_fcb(fid) = NULL
       THEN fails("main", "Close", 0, -1)
       ELSE /\ no_call_through(get_fcb(fid))
            /\ socket_close(fid, get_fcb(fid))

\* sys_ShutDown(sock, how): the return of line 261 comes before everything
\* else in the function.
sys_ShutDown(sock, how) ==
    /\ Running
    /\ fails("main", "ShutDown", 0, -1)

\* A pipe call through freed memory.
pipe_is_gone(p) == pipes[p].freed

\* Write(fid, buf, Len(buf)) by thread t: socket_write behind the stream layer,
\* up to its return or its sleep.
socket_write(t, fid, buf) ==
    /\ Running
    /\ pth[t].pc = "idle"
    /\ IF get_fcb(fid) = NULL
       THEN fails(t, "write", Len(buf), -1)
       ELSE LET x == get_fcb(fid)
            IN  IF socks[x].type # "PEER" \/ socks[x].write_pipe = NULL
                THEN fails(t, "write", Len(buf), -1)
                ELSE IF pipe_is_gone(socks[x].write_pipe)
                THEN undefined("use_after_free")
                ELSE pipe_write(t, socks[x].write_pipe, buf)

\* Read(fid, buf, n) by thread t: socket_read behind the stream layer, up to
\* its return or its sleep.
socket_read(t, fid, n) ==
    /\ Running
    /\ pth[t].pc = "idle"
    /\ IF get_fcb(fid) = NULL
       THEN fails(t, "read", n, -1)
       ELSE LET x == get_fcb(fid)
            IN  IF socks[x].type # "PEER" \/ socks[x].read_pipe = NULL
                THEN fails(t, "read", n, -1)
                ELSE IF pipe_is_gone(socks[x].read_pipe)
                THEN undefined("use_after_free")
                ELSE pipe_read(t, socks[x].read_pipe, n)

\* ------------------------------------------------------------------ threads
\* A PTCB that has not been allocated yet.  pc is the position of the thread
\* of the PTCB: "run" (in user code), "join_wait" (asleep in the wait loop of
\* sys_ThreadJoin), "join_ready" (woken from it), "exited"; target is the
\* thread_to_join of its call, cv the PTCB whose exit_cv it sleeps on; stored
\* and out are the caller's *exitval location.
NoPTCB == [alloc |-> FALSE, freed |-> FALSE, tcb |-> NULL, task |-> NULL,
           argl |-> 0, args |-> NULL, detached |-> 0, exited |-> 0,
           exitval |-> 0, refcount |-> 0,
           pc |-> "none", target |-> 0, cv |-> 0, stored |-> FALSE, out |-> 0]

\* free(ptcb): what the freed memory holds is not defined.
FreedPTCB == [NoPTCB EXCEPT !.alloc = TRUE, !.freed = TRUE]

\* No thread is modelled.
NoThreads ==
    /\ ptcbs = [x \in PTCBS |-> NoPTCB]
    /\ ptcb_list = <<>>
    /\ thread_count = 0

\* As new_ptcb, with a reference count that starts from 0.
new_ptcb_uncounted(n, task, argl, args, garbage) ==
    [NoPTCB EXCEPT !.alloc = TRUE, !.tcb = n, !.task = task, !.argl = argl,
                   !.args = args, !.detached = 0, !.exited = 0, !.refcount = 0,
                   !.exitval = garbage, !.pc = "run"]

\* The PTCB n as sys_CreateThread initialises it (lines 43-52); it does not
\* write exitval, which keeps what xmalloc's memory held.
new_ptcb(n, task, argl, args, garbage) ==
    [NoPTCB EXCEPT !.alloc = TRUE, !.tcb = n, !.task = task, !.argl = argl,
                   !.args = args, !.detached = 0, !.exited = 0, !.refcount = 1,
                   !.exitval = garbage, !.pc = "run"]

\* Thread c is running user code: it can make a system call.
cur_thread(c) == ptcbs[c].alloc /\ ~ptcbs[c].freed /\ ptcbs[c].pc = "run"

\* rlist_find(&curproc->ptcb_list, tid, NULL) finds a node.
rlist_find(tid) == \E i \in 1..Len(ptcb_list) : ptcb_list[i] = tid

\* rlist_remove(&ptcb->ptcb_list_node)
rlist_remove(list, x) == SelectSeq(list, LAMBDA y : y # x)

\* The values tcb->state can have for the thread of PTCB P when another thread
\* reads it: a thread in user code is READY, or RUNNING on another core.
tcb_states(P) ==
    CASE P.pc = "run" -> {"READY", "RUNNING"}
      [] P.pc = "join_wait" -> {"STOPPED"}
      [] P.pc = "join_ready" -> {"READY"}
      [] OTHER -> {"EXITED"}

\* kernel_broadcast(&ptcbs[x].exit_cv)
exit_cv_broadcast(P, x) ==
    [u \in PTCBS |-> IF P[u].pc = "join_wait" /\ P[u].cv = x
                     THEN [P[u] EXCEPT !.pc = "join_ready"] ELSE P[u]]

\* sys_CreateThread(task, argl, args) called by thread c.
sys_CreateThread(c, task, argl, args) ==
    /\ Running
    /\ cur_thread(c)
    /\ \E n \in PTCBS :
          /\ ~ptcbs[n].alloc
          /\ \A m \in PTCBS : m < n => ptcbs[m].alloc
          /\ \E garbage \in ExitVals :
                ptcbs' = [ptcbs EXCEPT ![n] = new_ptcb(n, task, argl, args, garbage)]
          /\ thread_count' = thread_count + 1
          /\ ptcb_list' = Append(ptcb_list, n)
          /\ ev' = Returned(c, "CreateThread", 0, n)
    /\ UNCHANGED <<sockvars, pipevars>>

\* As joined, the reference not counted.
joined_uncounted(P, tid) == P

\* thread_to_join->refcount++ (line 138)
joined(P, tid) == [P EXCEPT ![tid].refcount = @ + 1]

\* The PTCB whose exit_cv the wait loop of sys_ThreadJoin sleeps on (line
\* 142): curthread->ptcb, the caller's own.
join_waits_on(c, tid) == c

\* sys_ThreadJoin from the test of its wait loop (line 141) to its return or
\* its sleep; P is the PTCB table so far.
join_from_loop(c, tid, P) ==
    IF P[tid].exited = 0 /\ P[tid].detached = 0
    THEN /\ ptcbs' = [P EXCEPT ![c].pc = "join_wait", ![c].target = tid,
                               ![c].cv = join_waits_on(c, tid)]
         /\ UNCHANGED <<ptcb_list, thread_count, ev, sockvars, pipevars>>
    ELSE LET Q == [P EXCEPT ![c].pc = "run", ![c].target = 0, ![c].cv = 0,
                            ![c].stored = TRUE, ![c].out = P[tid].exitval,
                            ![tid].refcount = @ - 1]
         IN  /\ IF Q[tid].refcount = 0
                THEN /\ ptcbs' = [Q EXCEPT ![tid] = FreedPTCB]
                     /\ ptcb_list' = rlist_remove(ptcb_list, tid)
                ELSE /\ ptcbs' = Q
                     /\ ptcb_list' = ptcb_list
             /\ ev' = Returned(c, "ThreadJoin", 0, 0)
             /\ UNCHANGED <<thread_count, sockvars, pipevars>>

\* sys_ThreadJoin(tid, &out) called by thread c, up to its return or its
\* sleep.  When tid is not in the list, rlist_find returns its third argument,
\* NULL, and line 114 reads tmp->ptcb through it.
sys_ThreadJoin(c, tid) ==
    /\ Running
    /\ cur_thread(c)
    /\ IF tid = 0 \/ tid = c
       THEN fails(c, "ThreadJoin", 0, -1)
       ELSE IF ~rlist_find(tid)
       THEN \/ fails(c, "ThreadJoin", 0, -1)
            \/ undefined("null_dereference")
       ELSE IF ptcbs[tid].exited = 1 \/ ptcbs[tid].detached = 1
       THEN fails(c, "ThreadJoin", 0, -1)
       ELSE \E state \in tcb_states(ptcbs[tid]) :
               IF state # "RUNNING"
               THEN fails(c, "ThreadJoin", 0, -1)
               ELSE join_from_loop(c, tid, joined(ptcbs, tid))

\* The scheduler resumes a joiner that was woken from an exit_cv.
sys_ThreadJoin_resume(c) ==
    /\ Running
    /\ ptcbs[c].pc = "join_ready"
    /\ join_from_loop(c, ptcbs[c].target, ptcbs)

\* sys_ThreadDetach(tid) called by thread c.  A tid that is the address of no
\* PTCB is dereferenced as it is (line 170).
sys_ThreadDetach(c, tid) ==
    /\ Running
    /\ cur_thread(c)
    /\ IF tid = 0 \/ ~ptcbs[tid].alloc \/ ptcbs[tid].freed
       THEN \/ fails(c, "ThreadDetach", 0, -1)
            \/ undefined(IF tid = 0 THEN "null_dereference" ELSE "invalid_pointer")
       ELSE IF "EXITED" \in tcb_states(ptcbs[tid]) \/ ptcbs[tid].tcb = NULL
       THEN fails(c, "ThreadDetach", 0, -1)
       ELSE /\ ptcbs' = exit_cv_broadcast([ptcbs EXCEPT ![tid].detached = 1], tid)
            /\ ev' = Returned(c, "ThreadDetach", 0, 0)
            /\ UNCHANGED <<ptcb_list, thread_count, sockvars, pipevars>>

\* As exit_recorded, the exit value not saved.
exit_recorded_valueless(P, c, exitval) ==
    [P EXCEPT ![c].exited = 1, ![c].refcount = @ - 1, ![c].pc = "exited"]

\* Lines 191-193: the exit value saved, exited set, the thread's own
\* reference given up; the thread runs no more user code (line 254).
exit_recorded(P, c, exitval) ==
    [P EXCEPT ![c].exitval = exitval, ![c].exited = 1, ![c].refcount = @ - 1,
              ![c].pc = "exited"]

\* As thread_count_decremented, the count left as it was.
thread_count_kept(n) == n

\* curproc->thread_count-- (line 189)
thread_count_decremented(n) == n - 1

\* sys_ThreadExit(exitval) called by thread c (start_thread calls it with the
\* value its task returned).  The last thread of the process also frees its
\* PTCB if nothing else counts a reference to it (lines 239-242).
sys_ThreadExit(c, exitval) ==
    /\ Running
    /\ cur_thread(c)
    /\ LET P == exit_cv_broadcast(exit_recorded(ptcbs, c, exitval), c)
       IN  /\ thread_count' = thread_count_decremented(thread_count)
           /\ IF thread_count' = 0 /\ P[c].refcount = 0
              THEN /\ ptcbs' = [P EXCEPT ![c] = FreedPTCB]
                   /\ ptcb_list' = rlist_remove(ptcb_list, c)
              ELSE /\ ptcbs' = P
                   /\ ptcb_list' = ptcb_list
           /\ ev' = Returned(c, "ThreadExit", 0, 0)
           /\ UNCHANGED <<sockvars, pipevars>>

\* ------------------------------------------------------------------ the socket specification
\* The threads of T that are in no call.
idle_threads(T) == {u \in T : sth[u].pc = "idle"}

\* The thread that makes the next call: the threads of T run the same code,
\* so which of the idle ones makes it is of no consequence, and one is taken.
next_thread(T) == IF idle_threads(T) = {} THEN {} ELSE {CHOOSE u \in idle_threads(T) : TRUE}

\* The state after fid 0 = Socket(1) and fid 1 = Socket(NOPORT).
SockInit ==
    /\ pipes = [p \in PIPES |-> NoPipe]
    /\ pth = [t \in PipeThreads |-> IdleFrame]
    /\ wlog = [p \in PIPES |-> <<>>]
    /\ rlog = [p \in PIPES |-> <<>>]
    /\ ev = Returned("none", "none", 0, 0)
    /\ socks = [s \in SOCKS |-> IF s = 1 THEN [init_socket_cb(0) EXCEPT !.port = 1]
                                ELSE IF s = 2 THEN init_socket_cb(1)
                                ELSE NoSock]
    /\ reqs = [r \in REQS |-> NoReq]
    /\ PORT_MAP = [q \in Ports |-> NULL]
    /\ FT = [f \in Fids |-> IF f = 0 THEN 1 ELSE IF f = 1 THEN 2 ELSE NULL]
    /\ sth = [t \in SockThreads |-> IdleSock]
    /\ ub = "none"
    /\ NoThreads

SockNext ==
    \/ \E fid \in -1..MAX_FILEID : sys_Listen(fid)
    \/ \E t \in next_thread(AccThreads), fid \in -1..MAX_FILEID : sys_Accept(t, fid)
    \/ \E t \in AccThreads : sys_Accept_resume(t)
    \/ \E t \in next_thread(ConnThreads), fid \in -1..MAX_FILEID, port \in 0..MAX_PORT,
           timed \in BOOLEAN :
          sys_Connect(t, fid, port, timed)
    \/ \E t \in ConnThreads : Connect_timeout(t)
    \/ \E t \in ConnThreads : sys_Connect_resume(t)
    \/ \E fid \in -1..MAX_FILEID : sys_Close(fid)

SpecSock == SockInit /\ [][SockNext]_vars

\* ------------------------------------------------------------------ the rebinding specification
\* The state after fid 0 = Socket(1) and fid 1 = Socket(1): two unbound
\* sockets bound to the same port.
RebindInit ==
    /\ pipes = [p \in PIPES |-> NoPipe]
    /\ pth = [t \in PipeThreads |-> IdleFrame]
    /\ wlog = [p \in PIPES |-> <<>>]
    /\ rlog = [p \in PIPES |-> <<>>]
    /\ ev = Returned("none", "none", 0, 0)
    /\ socks = [s \in SOCKS |-> IF s = 1 THEN [init_socket_cb(0) EXCEPT !.port = 1]
                                ELSE IF s = 2 THEN [init_socket_cb(1) EXCEPT !.port = 1]
                                ELSE NoSock]
    /\ reqs = [r \in REQS |-> NoReq]
    /\ PORT_MAP = [q \in Ports |-> NULL]
    /\ FT = [f \in Fids |-> IF f = 0 THEN 1 ELSE IF f = 1 THEN 2 ELSE NULL]
    /\ sth = [t \in SockThreads |-> IdleSock]
    /\ ub = "none"
    /\ NoThreads

SpecRebind == RebindInit /\ [][SockNext]_vars

\* ------------------------------------------------------------------ the exhaustion specification
\* The state after fid 0 = Socket(1) and fid f = Socket(NOPORT) for every other
\* descriptor of the process: no descriptor is left.
ExhaustInit ==
    /\ pipes = [p \in PIPES |-> NoPipe]
    /\ pth = [t \in PipeThreads |-> IdleFrame]
    /\ wlog = [p \in PIPES |-> <<>>]
    /\ rlog = [p \in PIPES |-> <<>>]
    /\ ev = Returned("none", "none", 0, 0)
    /\ socks = [s \in SOCKS |-> IF s = 1 THEN [init_socket_cb(0) EXCEPT !.port = 1]
                                ELSE IF s <= MAX_FILEID THEN init_socket_cb(s - 1)
                                ELSE NoSock]
    /\ reqs = [r \in REQS |-> NoReq]
    /\ PORT_MAP = [q \in Ports |-> NULL]
    /\ FT = [f \in Fids |-> f + 1]
    /\ sth = [t \in SockThreads |-> IdleSock]
    /\ ub = "none"
    /\ NoThreads

SpecExhaust == ExhaustInit /\ [][SockNext]_vars

\* ------------------------------------------------------------------ the binding specification
\* The state before any socket is made.
BindInit ==
    /\ pipes = [p \in PIPES |-> NoPipe]
    /\ pth = [t \in PipeThreads |-> IdleFrame]
    /\ wlog = [p \in PIPES |-> <<>>]
    /\ rlog = [p \in PIPES |-> <<>>]
    /\ ev = Returned("none", "none", 0, 0)
    /\ NoSockets
    /\ NoThreads

BindNext ==
    \/ \E port \in -1..(MAX_PORT + 1) : sys_Socket(port)
    \/ \E fid \in -1..MAX_FILEID : sys_Listen(fid)
    \/ \E fid \in -1..MAX_FILEID : sys_Close(fid)

SpecBind == BindInit /\ [][BindNext]_vars

\* ------------------------------------------------------------------ the peer specification
\* What the threads write through the sockets.
PeerBufs == {<<1>>, <<0, 1>>}

\* The state after fid 0 = Socket(1), Listen(0), fid 1 = Socket(NOPORT),
\* Connect(1, 1, -1) and 2 = Accept(0): sockets 2 (fid 1) and 3 (fid 2) are
\* peers over pipes 1 and 2.
PeerInit ==
    /\ pipes = [p \in PIPES |-> IF p = 1 THEN init_pipe_obj(2, 1)
                                ELSE IF p = 2 THEN init_pipe_obj(1, 2)
                                ELSE NoPipe]
    /\ pth = [t \in PipeThreads |-> IdleFrame]
    /\ wlog = [p \in PIPES |-> <<>>]
    /\ rlog = [p \in PIPES |-> <<>>]
    /\ ev = Returned("none", "none", 0, 0)
    /\ socks = [s \in SOCKS |->
                  IF s = 1 THEN [init_socket_cb(0) EXCEPT !.port = 1, !.type = "LISTENER"]
                  ELSE IF s = 2 THEN [init_socket_cb(1) EXCEPT !.type = "PEER",
                                         !.read_pipe = 2, !.write_pipe = 1]
                  ELSE IF s = 3 THEN [init_socket_cb(2) EXCEPT !.port = 1, !.type = "PEER",
                                         !.read_pipe = 1, !.write_pipe = 2]
                  ELSE NoSock]
    /\ reqs = [r \in REQS |-> IF r = 1 THEN [alloc |-> TRUE, admitted |-> 1,
                                              peer |-> 2, to |-> 1]
                              ELSE NoReq]
    /\ PORT_MAP = [q \in Ports |-> IF q = 1 THEN 1 ELSE NULL]
    /\ FT = [f \in Fids |-> IF f <= 2 THEN f + 1 ELSE NULL]
    /\ sth = [t \in SockThreads |-> IdleSock]
    /\ ub = "none"
    /\ NoThreads

\* The bytes written through the two sockets together stay within MaxWritten.
within_budget(buf) ==
    \A p, q \in PIPES : p # q => Len(wlog[p]) + Len(wlog[q]) + Len(buf) <= MaxWritten

\* One thread writes and one reads, through any descriptor.
PeerNext ==
    \/ \E fid \in Fids, buf \in PeerBufs :
          within_budget(buf) /\ socket_write("w1", fid, buf)
    \/ Running /\ pipe_write_resume("w1")
    \/ \E fid \in Fids, n \in 1..PIPE_BUFFER_SIZE : socket_read("r1", fid, n)
    \/ Running /\ pipe_read_resume("r1")
    \/ \E fid \in Fids, how \in {"READ", "WRITE", "BOTH"} : sys_ShutDown(fid, how)
    \/ \E fid \in Fids : sys_Close(fid)

SpecPeer == PeerInit /\ [][PeerNext]_vars

\* ------------------------------------------------------------------ the thread specification
\* A process with its main thread: PTCB 1, linked in ptcb_list and counted.
ThreadInit ==
    /\ pipes = [p \in PIPES |-> NoPipe]
    /\ pth = [t \in PipeThreads |-> IdleFrame]
    /\ wlog = [p \in PIPES |-> <<>>]
    /\ rlog = [p \in PIPES |-> <<>>]
    /\ ev = Returned(0, "none", 0, 0)
    /\ NoSockets
    /\ ptcbs = [x \in PTCBS |-> IF x = 1 THEN new_ptcb(1, 0, 0, NULL, 0) ELSE NoPTCB]
    /\ ptcb_list = <<1>>
    /\ thread_count = 1

ThreadNext ==
    \/ \E c \in PTCBS, a \in TaskArgs : sys_CreateThread(c, 1, a[1], a[2])
    \/ \E c \in PTCBS, tid \in Tids : sys_ThreadJoin(c, tid)
    \/ \E c \in PTCBS : sys_ThreadJoin_resume(c)
    \/ \E c \in PTCBS, tid \in Tids : sys_ThreadDetach(c, tid)
    \/ \E c \in PTCBS, exitval \in ExitVals : sys_ThreadExit(c, exitval)

SpecThread == ThreadInit /\ [][ThreadNext]_vars

\* ------------------------------------------------------------------ the pipe specification
\* The state after sys_Pipe: one pipe, its read end FCB 0, its write end FCB 1.
PipeInit ==
    /\ pipes = [p \in PIPES |-> IF p = 1 THEN init_pipe_obj(0, 1) ELSE NoPipe]
    /\ NoSockets
    /\ NoThreads
    /\ pth = [t \in PipeThreads |-> IdleFrame]
    /\ wlog = [p \in PIPES |-> <<>>]
    /\ rlog = [p \in PIPES |-> <<>>]
    /\ ev = Returned("none", "none", 0, 0)

PipeNext ==
    \/ \E t \in Writers, p \in PIPES, buf \in Bufs : pipe_write(t, p, buf)
    \/ \E t \in PipeThreads : pipe_write_resume(t)
    \/ \E t \in Readers, p \in PIPES, n \in 0..MaxN : pipe_read(t, p, n)
    \/ \E t \in PipeThreads : pipe_read_resume(t)
    \/ \E p \in PIPES : pipe_writer_close("closer", p)
    \/ \E p \in PIPES : pipe_reader_close("closer", p)

SpecPipe == PipeInit /\ [][PipeNext]_vars

\* ------------------------------------------------------------------ claims on the pipe
IsPrefix(a, b) == Len(a) <= Len(b) /\ SubSeq(b, 1, Len(a)) = a

\* C1: the bytes returned by pipe_read, in call order, are a prefix of the bytes
\* accepted by pipe_write, in call order (FIFO, unmodified, each write
\* contiguous, also across the wrap of the ring); once the pipe is drained
\* the bytes read are exactly the bytes written.
C1_ReadIsPrefixOfWritten ==
    \A p \in PIPES :
        /\ IsPrefix(rlog[p], wlog[p])
        /\ (pipes[p].written_bytes = 0 => rlog[p] = wlog[p])

\* C1: more bytes than the ring holds went through it, written by calls of
\* more than one byte, and all of them were read back.
C1_Witness ==
    /\ Len(wlog[1]) = PIPE_BUFFER_SIZE + 1
    /\ rlog[1] = wlog[1]
    /\ \E i, j \in 1..Len(rlog[1]) : rlog[1][i] # rlog[1][j]
    /\ ev.op = "read" /\ ev.ret = PIPE_BUFFER_SIZE

\* C2: a writer that slept on a full ring and is run again after a reader took
\* bytes out, the read end still open, copies min(n, free space) >= 1 bytes and
\* returns that count.
C2_WokenWriterWrites ==
    [][\A t \in Writers :
          ( /\ pth[t].pc = "ready_space"
            /\ pth[t].n >= 1
            /\ pipes[pth[t].pipe].reader # NULL
            /\ pipes[pth[t].pipe].written_bytes < PIPE_BUFFER_SIZE
            /\ pipe_write_resume(t) )
          => ( /\ pth'[t].pc = "idle"
               /\ ev' = Returned(t, "write", pth[t].n,
                                 Min(pth[t].n, PIPE_BUFFER_SIZE - pipes[pth[t].pipe].written_bytes))
               /\ ev'.ret >= 1 )]_vars

\* C3: with the write end closed and the read end open, a pipe_read (a new call
\* or one run again after a sleep) does not sleep: it returns min(n, count),
\* which is 0 once the ring is empty, and hands out exactly those bytes.
C3_ReadAfterWriterClose ==
    [][\A p \in PIPES :
          (live(p) /\ pipes[p].writer = NULL /\ pipes[p].reader # NULL)
          => \A t \in Readers :
                \A n \in 0..MaxN :
                   ( \/ pipe_read(t, p, n)
                     \/ pth[t].pipe = p /\ pth[t].n = n /\ pipe_read_resume(t) )
                   => ( /\ pth'[t].pc = "idle"
                        /\ ev' = Returned(t, "read", n, Min(n, pipes[p].written_bytes))
                        /\ pipes'[p].written_bytes = pipes[p].written_bytes - ev'.ret
                        /\ Len(rlog'[p]) = Len(rlog[p]) + ev'.ret
                        /\ \A u \in PipeThreads : pth'[u].pc # "wait_data" )]_vars

\* C3: a read of n >= 1 bytes returned 0 on a drained pipe whose write end is
\* closed, after data went through the pipe.
C3_Witness ==
    /\ pipes[1].writer = NULL /\ pipes[1].reader # NULL
    /\ pipes[1].written_bytes = 0
    /\ Len(rlog[1]) >= 1
    /\ ev.op = "read" /\ ev.n >= 1 /\ ev.ret = 0

\* C4: with the read end closed, a pipe_write (a new call or one run again
\* after a sleep) returns -1 without sleeping and leaves the pipe as it was.
C4_WriteAfterReaderClose ==
    [][\A p \in PIPES :
          (live(p) /\ pipes[p].reader = NULL)
          => \A t \in Writers :
                /\ \A buf \in Bufs :
                      (pth[t].pc = "idle" /\ pipe_write(t, p, buf))
                      => ( /\ pth'[t].pc = "idle"
                           /\ ev' = Returned(t, "write", Len(buf), -1)
                           /\ pipes' = pipes
                           /\ wlog' = wlog )
                /\ (pth[t].pipe = p /\ pipe_write_resume(t))
                      => ( /\ pth'[t].pc = "idle"
                           /\ ev' = Returned(t, "write", Len(pth[t].buf), -1)
                           /\ pipes' = pipes
                           /\ wlog' = wlog )]_vars

\* C4: a write of at least one byte returned -1 on a pipe whose read end is
\* closed while its write end is open and the ring holds unread bytes.
C4_Witness ==
    /\ pipes[1].reader = NULL /\ pipes[1].writer # NULL
    /\ pipes[1].written_bytes >= 1
    /\ ev.op = "write" /\ ev.n >= 1 /\ ev.ret = -1

\* C5: the close of one end, the other end open, makes every thread that sleeps
\* on the other side runnable; run again, a reader on an empty ring returns 0
\* and a writer returns -1; no thread sleeps on a side whose other end is closed.
C5_CloseReleasesSleepers ==
    [][\A p \in PIPES :
          /\ ( pipes[p].writer # NULL /\ pipes'[p].writer = NULL /\ pipes[p].reader # NULL )
             => \A u \in PipeThreads :
                   (pth[u].pc = "wait_data" /\ pth[u].pipe = p) => pth'[u].pc = "ready_data"
          /\ ( pipes[p].reader # NULL /\ pipes'[p].reader = NULL /\ pipes[p].writer # NULL )
             => \A u \in PipeThreads :
                   (pth[u].pc = "wait_space" /\ pth[u].pipe = p) => pth'[u].pc = "ready_space"
          /\ \A t \in Readers :
                ( /\ pth[t].pipe = p /\ pipes[p].writer = NULL /\ pipes[p].written_bytes = 0
                  /\ pipe_read_resume(t) )
                => (pth'[t].pc = "idle" /\ ev' = Returned(t, "read", pth[t].n, 0))
          /\ \A t \in Writers :
                ( /\ pth[t].pipe = p /\ pipes[p].reader = NULL
                  /\ pipe_write_resume(t) )
                => (pth'[t].pc = "idle" /\ ev' = Returned(t, "write", pth[t].n, -1))
          /\ ( pipes'[p].reader = NULL /\ (pipes'[p].alloc /\ ~pipes'[p].freed) )
             => \A u \in PipeThreads : ~(pth'[u].pc = "wait_space" /\ pth'[u].pipe = p)
          /\ ( pipes'[p].writer = NULL /\ (pipes'[p].alloc /\ ~pipes'[p].freed) )
             => \A u \in PipeThreads : ~(pth'[u].pc = "wait_data" /\ pth'[u].pipe = p)]_vars

\* C5: the read end was closed while both writers slept on the full ring: one
\* of them has returned -1 and the other is runnable.
C5_Witness ==
    /\ pipes[1].reader = NULL /\ pipes[1].writer # NULL
    /\ pipes[1].written_bytes = PIPE_BUFFER_SIZE
    /\ ev = Returned("w1", "write", 1, -1)
    /\ pth["w2"].pc = "ready_space"

\* ------------------------------------------------------------------ claims on the sockets
\* Socket x is a listener installed under its port.
installed(x) == socks[x].type = "LISTENER" /\ PORT_MAP[socks[x].port] = x

\* Thread a runs sys_Accept on listener x from the test of its wait loop: in a
\* new call or when it is run again after its sleep.
accepts(a, x) ==
    \/ \E fid \in Fids : get_fcb(fid) = x /\ sys_Accept(a, fid)
    \/ sth[a].pc = "ready_req" /\ sth[a].listener = x /\ sys_Accept_resume(a)

\* C6: rendezvous.  A Connect without timeout from an unbound socket to a port
\* with a listener queues its request, sleeps and wakes an acceptor that sleeps
\* on the listener; it is made runnable by the admission of its request only.
\* An Accept that runs on the listener with that request first in the queue and
\* a descriptor free returns a descriptor that was free, of a new socket; the
\* new socket and the requesting socket are peers, each reading the pipe the
\* other writes, and the connector is made runnable.  Run again, it returns 0.
C6_Rendezvous ==
    [][/\ \A t \in ConnThreads, fid \in Fids, port \in Ports :
            ( /\ get_fcb(fid) # NULL
              /\ socks[get_fcb(fid)].type = "UNBOUND"
              /\ ~port_is_illegal(port)
              /\ PORT_MAP[port] # NULL
              /\ installed(PORT_MAP[port])
              /\ sys_Connect(t, fid, port, FALSE) )
            => LET x == PORT_MAP[port]
               IN  /\ sth'[t].pc = "wait_conn"
                   /\ ~reqs[sth'[t].request].alloc
                   /\ reqs'[sth'[t].request] =
                          [alloc |-> TRUE, admitted |-> 0, peer |-> get_fcb(fid), to |-> x]
                   /\ socks'[x].queue = Append(socks[x].queue, sth'[t].request)
                   /\ accept_sleepers(x) # {}
                         => \E a \in accept_sleepers(x) : sth'[a].pc = "ready_req"
       /\ \A t \in ConnThreads :
            ( /\ sth[t].pc = "wait_conn"
              /\ ~sth[t].timed
              /\ sth'[t].pc # "wait_conn" )
            => sth'[t].pc = "ready_conn" /\ reqs'[sth[t].request].admitted = 1
       /\ \A a \in AccThreads, x \in SOCKS :
            ( /\ installed(x)
              /\ socks[x].queue # <<>>
              /\ FCB_reserve # NOFILE
              /\ ~socks[reqs[Head(socks[x].queue)].peer].freed
              /\ socks[reqs[Head(socks[x].queue)].peer].type = "UNBOUND"
              /\ accepts(a, x) )
            => LET r == Head(socks[x].queue)
                   c == reqs[r].peer
                   n == FT'[ev'.ret]
               IN  /\ ev' = Returned(a, "Accept", 0, FCB_reserve)
                   /\ sth'[a].pc = "idle"
                   /\ FT[ev'.ret] = NULL
                   /\ ~socks[n].alloc
                   /\ socks'[n].fcb = ev'.ret
                   /\ socks'[n].type = "PEER"
                   /\ socks'[c].type = "PEER"
                   /\ socks'[n].read_pipe # NULL
                   /\ socks'[n].write_pipe # NULL
                   /\ socks'[n].read_pipe # socks'[n].write_pipe
                   /\ socks'[c].write_pipe = socks'[n].read_pipe
                   /\ socks'[c].read_pipe = socks'[n].write_pipe
                   /\ reqs'[r].admitted = 1
                   /\ \A u \in ConnThreads :
                         (sth[u].pc = "wait_conn" /\ sth[u].request = r)
                            => sth'[u].pc = "ready_conn"
       /\ \A t \in ConnThreads :
            ( /\ sth[t].pc = "ready_conn"
              /\ reqs[sth[t].request].admitted = 1
              /\ sys_Connect_resume(t) )
            => ev' = Returned(t, "Connect", 0, 0) /\ sth'[t].pc = "idle"]_vars

\* C6: a Connect has returned 0 after an Accept returned the descriptor of a
\* new socket: that socket and the connecting one are peers over two pipes.
C6_Witness ==
    /\ ev.op = "Connect" /\ ev.ret = 0
    /\ \E c, n \in SOCKS :
          /\ c # n
          /\ socks[c].type = "PEER" /\ socks[n].type = "PEER"
          /\ ~socks[c].freed /\ ~socks[n].freed
          /\ socks[n].fcb \in Fids /\ FT[socks[n].fcb] = n
          /\ socks[c].fcb \in Fids /\ FT[socks[c].fcb] = c
          /\ socks[n].read_pipe # NULL
          /\ socks[c].write_pipe = socks[n].read_pipe
          /\ socks[c].read_pipe = socks[n].write_pipe
          /\ \E r \in REQS : reqs[r].alloc /\ reqs[r].peer = c /\ reqs[r].admitted = 1

\* C7: a Connect that slept returns 0 when the admitted flag of its request is
\* 1 and -1 otherwise, and leaves the flag as it is; a call that a connector
\* returns from without a sleep is a Connect that returns -1 and made no
\* request; the flag is set by an Accept that takes the request from
\* the head of a queue, and by nothing else; the expiry of the timeout makes a
\* connector with a timeout runnable and leaves the flag as it is.
C7_ConnectResult ==
    [][/\ \A t \in ConnThreads :
            (sth[t].pc = "ready_conn" /\ sys_Connect_resume(t))
            => /\ ev'.t = t /\ ev'.op = "Connect"
               /\ ev'.ret \in {0, -1}
               /\ (ev'.ret = 0) <=> (reqs[sth[t].request].admitted = 1)
               /\ reqs' = reqs
       /\ \A t \in ConnThreads :
            (sth[t].pc = "idle" /\ ev' # ev /\ ev'.t = t)
            => ev' = Returned(t, "Connect", 0, -1) /\ sth' = sth /\ reqs' = reqs
       /\ \A r \in REQS :
            (reqs[r].admitted # 1 /\ reqs'[r].admitted = 1)
            => /\ reqs[r].alloc
               /\ ev'.op = "Accept"
               /\ \E x \in SOCKS : /\ socks[x].queue # <<>>
                                    /\ Head(socks[x].queue) = r
                                    /\ socks'[x].queue = Tail(socks[x].queue)
       /\ \A t \in ConnThreads :
            Connect_timeout(t)
            => sth[t].timed /\ sth'[t].pc = "ready_conn" /\ reqs' = reqs]_vars

\* C7: a Connect has returned -1 after its timeout: its request is still in the
\* queue of the installed listener, not admitted, and no thread is in a call.
C7_Witness ==
    /\ ev.op = "Connect" /\ ev.ret = -1
    /\ \A t \in SockThreads : sth[t].pc = "idle"
    /\ \E x \in SOCKS, r \in REQS :
          /\ installed(x)
          /\ socks[x].queue = <<r>>
          /\ reqs[r].alloc /\ reqs[r].admitted = 0

\* C8: an acceptor that slept on the empty queue of a listener and was woken by
\* the close of the listener returns -1 when it is run again.
C8_AcceptOnClosedListenerFails ==
    [][\A a \in AccThreads :
          ( /\ sth[a].pc = "ready_req"
            /\ socks[sth[a].listener].queue = <<>>
            /\ listener_is_gone(socks, sth[a].listener)
            /\ sys_Accept_resume(a) )
          => sth'[a].pc = "idle" /\ ev' = Returned(a, "Accept", 0, -1)]_vars

\* C9: requests are admitted in the order they were queued.  Requests are
\* numbered in the order sys_Connect made them: of two requests to one
\* listener, the later one is admitted only after the earlier one.
C9_FifoAdmission ==
    \A r1, r2 \in REQS :
        ( /\ r1 < r2
          /\ reqs[r1].alloc /\ reqs[r2].alloc
          /\ reqs[r1].to = reqs[r2].to
          /\ reqs[r2].admitted = 1 )
        => reqs[r1].admitted = 1

\* C9: two requests were queued on one listener and two Accept calls on it have
\* admitted both, the second returning the descriptor of a second new socket.
C9_Witness ==
    /\ \A r \in REQS : reqs[r].alloc /\ reqs[r].admitted = 1
    /\ \A r \in REQS : reqs[r].to = reqs[1].to
    /\ ev.op = "Accept" /\ ev.ret >= 0
    /\ Cardinality({n \in SOCKS : socks[n].alloc /\ socks[n].port = socks[reqs[1].to].port
                                     /\ n # reqs[1].to}) = 2

\* C10: a Connect on a socket that is not unbound (a listener, a peer) returns
\* -1, queues no request and changes no socket.
C10_ConnectNeedsUnbound ==
    [][\A t \in ConnThreads, fid \in Fids, port \in Ports, timed \in BOOLEAN :
          ( /\ get_fcb(fid) # NULL
            /\ socks[get_fcb(fid)].type # "UNBOUND"
            /\ sys_Connect(t, fid, port, timed)
            /\ ub' = "none" )
          => /\ ev' = Returned(t, "Connect", 0, -1)
             /\ sth'[t].pc = "idle"
             /\ reqs' = reqs
             /\ socks' = socks]_vars

\* ------------------------------------------------------------------ claims on binding
\* What sys_Listen requires of its argument: a descriptor of an unbound socket
\* with a port, no socket being installed under that port.
listen_allowed(fid) ==
    /\ get_fcb(fid) # NULL
    /\ socks[get_fcb(fid)].type = "UNBOUND"
    /\ socks[get_fcb(fid)].port # NOPORT
    /\ PORT_MAP[socks[get_fcb(fid)].port] = NULL

\* C11: Listen(id) returns 0, installs the socket under its port and makes it a
\* listener with an empty queue exactly when id is valid, the socket is unbound,
\* its port is not NOPORT and no socket is installed under the port; in every
\* other case it returns -1 and leaves the port table and the sockets as they
\* are.
C11_ListenExactly ==
    [][\A fid \in -1..MAX_FILEID :
          sys_Listen(fid)
          => IF listen_allowed(fid)
             THEN LET x == get_fcb(fid)
                  IN  /\ ev' = Returned("main", "Listen", 0, 0)
                      /\ PORT_MAP' = [PORT_MAP EXCEPT ![socks[x].port] = x]
                      /\ socks' = [socks EXCEPT ![x].type = "LISTENER", ![x].queue = <<>>]
             ELSE /\ ev' = Returned("main", "Listen", 0, -1)
                  /\ PORT_MAP' = PORT_MAP
                  /\ socks' = socks]_vars

\* ------------------------------------------------------------------ claims on connected peers
\* Socket x is a connected peer: it holds both its pipes.
connected(x) ==
    /\ socks[x].type = "PEER"
    /\ socks[x].read_pipe # NULL
    /\ socks[x].write_pipe # NULL

\* C12: ShutDown on a connected peer returns 0 and leaves the pipe field of
\* the direction that was shut down null (both fields for BOTH).
C12_ShutDownClosesDirection ==
    [][\A fid \in Fids :
          (get_fcb(fid) # NULL /\ connected(get_fcb(fid)))
          => \A how \in {"READ", "WRITE", "BOTH"} :
                sys_ShutDown(fid, how)
                => /\ ev' = Returned("main", "ShutDown", 0, 0)
                   /\ how \in {"READ", "BOTH"} => socks'[get_fcb(fid)].read_pipe = NULL
                   /\ how \in {"WRITE", "BOTH"} => socks'[get_fcb(fid)].write_pipe = NULL]_vars

\* The socket at the other end of the pipes of b has been closed.
other_end_closed(b) ==
    /\ connected(b)
    /\ pipes[socks[b].read_pipe].writer = NULL
    /\ pipes[socks[b].write_pipe].reader = NULL

\* C13: Close of a peer socket nulls both its pipe fields and wakes every
\* thread of the other socket that sleeps in a Read or a Write; from then on
\* every Write on the other socket returns -1, and every Read on it returns
\* the next bytes the closed socket had written, 0 once they are all read.
C13_PeerClose ==
    [][/\ \A fid \in Fids :
             (get_fcb(fid) # NULL /\ connected(get_fcb(fid)) /\ sys_Close(fid))
             => LET a == get_fcb(fid)
                IN  /\ socks'[a].read_pipe = NULL
                    /\ socks'[a].write_pipe = NULL
                    /\ \A t \in PipeThreads :
                          /\ (pth[t].pc = "wait_data" /\ pth[t].pipe = socks[a].write_pipe)
                             => pth'[t].pc = "ready_data"
                          /\ (pth[t].pc = "wait_space" /\ pth[t].pipe = socks[a].read_pipe)
                             => pth'[t].pc = "ready_space"
       /\ \A fid \in Fids :
             (get_fcb(fid) # NULL /\ other_end_closed(get_fcb(fid)))
             => LET b == get_fcb(fid)
                    rp == socks[b].read_pipe
                    wp == socks[b].write_pipe
                IN  /\ \A t \in Writers :
                          /\ \A buf \in PeerBufs :
                                socket_write(t, fid, buf)
                                => ev' = Returned(t, "write", Len(buf), -1) /\ pth' = pth
                          /\ (pth[t].pipe = wp /\ pipe_write_resume(t))
                             => /\ ev' = Returned(t, "write", pth[t].n, -1)
                                /\ pth'[t].pc = "idle"
                    /\ \A t \in Readers :
                          \A n \in 1..PIPE_BUFFER_SIZE :
                             ( \/ socket_read(t, fid, n)
                               \/ pth[t].pipe = rp /\ pth[t].n = n /\ pipe_read_resume(t) )
                             => LET k == Min(n, Len(wlog[rp]) - Len(rlog[rp]))
                                IN  /\ ev' = Returned(t, "read", n, k)
                                    /\ rlog'[rp] = SubSeq(wlog[rp], 1, Len(rlog[rp]) + k)
                                    /\ wlog' = wlog
                                    /\ pth'[t].pc = "idle"]_vars

\* Socket 2 was closed with bytes in flight; socket 3 has read them all and
\* its last Write returned -1.
C13_Witness ==
    /\ FT[1] = NULL
    /\ other_end_closed(3)
    /\ wlog[1] # <<>>
    /\ rlog[1] = wlog[1]
    /\ ev = Returned("w1", "write", 1, -1)

\* ------------------------------------------------------------------ claims on the port table
\* Socket x is a listener whose descriptor is open.
open_listener(x) ==
    /\ socks[x].alloc
    /\ ~socks[x].freed
    /\ socks[x].type = "LISTENER"
    /\ \E f \in Fids : FT[f] = x

\* Socket x is stored in the port table.
stored(x) == \E q \in Ports : PORT_MAP[q] = x

\* C14: after every step a socket is stored in PORT_MAP exactly if it is a
\* listener with an open descriptor and then under its own port, and a Connect
\* to a legal port with an empty slot returns -1.
C14_PortMapExact ==
    [][/\ \A x \in SOCKS :
             /\ stored(x)' <=> open_listener(x)'
             /\ stored(x)' => PORT_MAP'[socks'[x].port] = x
       /\ \A port \in 1..(MAX_PORT - 1) :
             PORT_MAP[port] = NULL
             => \A t \in ConnThreads :
                   sth[t].pc = "idle"
                   => \A sock \in Fids, timed \in BOOLEAN :
                         (get_fcb(sock) # NULL /\ sys_Connect(t, sock, port, timed))
                         => ev' = Returned(t, "Connect", 0, -1) /\ ub' = ub]_vars

\* ------------------------------------------------------------------ claims on threads
\* T is a thread of the process that has neither exited nor been detached.
joinable(T) ==
    /\ rlist_find(T)
    /\ ptcbs[T].alloc
    /\ ~ptcbs[T].freed
    /\ ptcbs[T].exited = 0
    /\ ptcbs[T].detached = 0

\* Thread j is asleep in ThreadJoin(T).
joining(j, T) == ptcbs[j].pc = "join_wait" /\ ptcbs[j].target = T

\* C15: a ThreadJoin on a live, undetached thread T of the process suspends
\* the caller; when T exits with a value, every thread asleep in ThreadJoin(T)
\* is made runnable, and once resumed it returns 0 with that value stored.
C15_JoinReturnsExitValue ==
    [][/\ \A c \in PTCBS :
             cur_thread(c)
             => \A T \in PTCBS :
                   (T # c /\ joinable(T) /\ sys_ThreadJoin(c, T))
                   => joining(c, T)'
       /\ \A T \in PTCBS :
             cur_thread(T)
             => \A v \in ExitVals :
                   sys_ThreadExit(T, v)
                   => \A j \in PTCBS : joining(j, T) => ptcbs'[j].pc = "join_ready"
       /\ \A j \in PTCBS :
             (/\ ptcbs[j].pc = "join_ready"
              /\ ptcbs[ptcbs[j].target].exited = 1
              /\ ptcbs[ptcbs[j].target].detached = 0
              /\ sys_ThreadJoin_resume(j))
             => /\ ev' = Returned(j, "ThreadJoin", 0, 0)
                /\ ptcbs'[j].stored
                /\ ptcbs'[j].out = ptcbs[ptcbs[j].target].exitval]_vars

\* C16: ThreadJoin(tid) returns -1 at once, no PTCB changed, when tid is 0,
\* the caller, not in the thread list of the process, exited or detached.
C16_JoinFailsAtOnce ==
    [][\A c \in PTCBS :
          cur_thread(c)
          => \A tid \in Tids :
                (/\ \/ tid = 0
                    \/ tid = c
                    \/ ~rlist_find(tid)
                    \/ ptcbs[tid].exited = 1
                    \/ ptcbs[tid].detached = 1
                 /\ sys_ThreadJoin(c, tid))
                => /\ ev' = Returned(c, "ThreadJoin", 0, -1)
                   /\ ptcbs' = ptcbs
                   /\ ub' = ub]_vars

\* C17: ThreadDetach(T) on a thread that has not exited makes runnable every
\* thread asleep in ThreadJoin(T), and a joiner resumed with its target
\* detached and not exited returns -1 and stores no exit value.
C17_DetachReleasesJoiner ==
    [][/\ \A c \in PTCBS :
             cur_thread(c)
             => \A T \in PTCBS :
                   (/\ ptcbs[T].alloc
                    /\ ~ptcbs[T].freed
                    /\ ptcbs[T].exited = 0
                    /\ sys_ThreadDetach(c, T))
                   => \A j \in PTCBS : joining(j, T) => ptcbs'[j].pc = "join_ready"
       /\ \A j \in PTCBS :
             (/\ ptcbs[j].pc = "join_ready"
              /\ ptcbs[ptcbs[j].target].detached = 1
              /\ ptcbs[ptcbs[j].target].exited = 0
              /\ sys_ThreadJoin_resume(j))
             => /\ ev' = Returned(j, "ThreadJoin", 0, -1)
                /\ ptcbs'[j].stored = ptcbs[j].stored
                /\ ptcbs'[j].out = ptcbs[j].out]_vars

\* tid names a thread of the process that has not exited.
detachable(tid) ==
    /\ tid # 0
    /\ ptcbs[tid].alloc
    /\ ~ptcbs[tid].freed
    /\ ptcbs[tid].exited = 0

\* C18: ThreadDetach(tid) returns 0, sets detached and broadcasts exit_cv of
\* the target when tid names a thread of the process that has not exited, and
\* otherwise returns -1 and changes nothing; detached is never reset.
C18_DetachResult ==
    [][/\ \A c \in PTCBS :
             cur_thread(c)
             => \A tid \in Tids :
                   sys_ThreadDetach(c, tid)
                   => IF detachable(tid)
                      THEN /\ ev' = Returned(c, "ThreadDetach", 0, 0)
                           /\ ptcbs' = exit_cv_broadcast(
                                           [ptcbs EXCEPT ![tid].detached = 1], tid)
                      ELSE /\ ev' = Returned(c, "ThreadDetach", 0, -1)
                           /\ ptcbs' = ptcbs
                           /\ ub' = ub
       /\ \A x \in PTCBS :
             (ptcbs[x].detached = 1 /\ ~ptcbs'[x].freed) => ptcbs'[x].detached = 1]_vars

\* C19: CreateThread returns a PTCB that was not allocated before, appended
\* to the thread list of the process, with refcount 1, exited 0, detached 0,
\* the given argl and args and a thread; thread_count grows by one and no
\* other PTCB changes.
C19_CreateThread ==
    [][\A c \in PTCBS :
          cur_thread(c)
          => \A a \in TaskArgs :
                sys_CreateThread(c, 1, a[1], a[2])
                => LET n == ev'.ret
                   IN  /\ ev'.op = "CreateThread"
                       /\ n \in PTCBS
                       /\ ~ptcbs[n].alloc
                       /\ ptcb_list' = Append(ptcb_list, n)
                       /\ ptcbs'[n].refcount = 1
                       /\ ptcbs'[n].exited = 0
                       /\ ptcbs'[n].detached = 0
                       /\ ptcbs'[n].argl = a[1]
                       /\ ptcbs'[n].args = a[2]
                       /\ ptcbs'[n].tcb # NULL
                       /\ thread_count' = thread_count + 1
                       /\ \A m \in PTCBS \ {n} : ptcbs'[m] = ptcbs[m]]_vars

\* The main thread has just created thread 2 with argl 8 and args 1.
C19_Witness ==
    /\ ev = Returned(1, "CreateThread", 0, 2)
    /\ ptcb_list = <<1, 2>>
    /\ thread_count = 2
    /\ ptcbs[2].refcount = 1
    /\ ptcbs[2].argl = 8
    /\ ptcbs[2].args = 1

\* ------------------------------------------------------------------ claims on closing a listener
\* Thread t sleeps in a Connect without timeout whose request is still in the
\* queue of listener x.
pending_for_ever(t, x) ==
    /\ sth[t].pc = "wait_conn"
    /\ ~sth[t].timed
    /\ sth[t].listener = x
    /\ reqs[sth[t].request].admitted = 0
    /\ \E i \in 1..Len(socks[x].queue) : socks[x].queue[i] = sth[t].request

\* C20: the Close of a listener makes runnable every connector that sleeps
\* without timeout on a request still in the listener's queue (nothing else
\* can wake it afterwards, so this is what its return of -1 depends on).
C20_CloseReleasesPendingConnect ==
    [][\A fid \in Fids :
          (/\ get_fcb(fid) # NULL
           /\ socks[get_fcb(fid)].type = "LISTENER"
           /\ sys_Close(fid))
          => \A t \in ConnThreads :
                pending_for_ever(t, get_fcb(fid)) => sth'[t].pc = "ready_conn"]_vars

\* ------------------------------------------------------------------ claims on the ring
\* C21: for every pipe, written_bytes is between 0 and PIPE_BUFFER_SIZE and
\* the distance from r_position to w_position around the ring is
\* written_bytes modulo PIPE_BUFFER_SIZE (0 for the full ring as for the empty
\* one).
C21_RingCount ==
    \A p \in PIPES :
       pipes[p].alloc
       => /\ pipes[p].written_bytes \in 0..PIPE_BUFFER_SIZE
          /\ (pipes[p].w_position - pipes[p].r_position) % PIPE_BUFFER_SIZE
                = pipes[p].written_bytes % PIPE_BUFFER_SIZE

\* C21 as the specification words it: the distance from r_position to
\* w_position modulo PIPE_BUFFER_SIZE is written_bytes itself.
C21_RingCountLiteral ==
    \A p \in PIPES :
       pipes[p].alloc
       => /\ pipes[p].written_bytes \in 0..PIPE_BUFFER_SIZE
          /\ (pipes[p].w_position - pipes[p].r_position) % PIPE_BUFFER_SIZE
                = pipes[p].written_bytes

\* The ring of pipe 1 is full after it has wrapped.
C21_Witness ==
    /\ pipes[1].written_bytes = PIPE_BUFFER_SIZE
    /\ pipes[1].r_position # 0
    /\ pipes[1].w_position = pipes[1].r_position

\* The bytes of pipe P written and not read yet, oldest first.
unread(P) ==
    [i \in 1..P.written_bytes |-> P.BUFFER[(P.r_position + i - 1) % PIPE_BUFFER_SIZE]]

\* C22: after every step, for every pipe, the bytes accepted by pipe_write
\* are the bytes returned by pipe_read followed by the bytes in the ring (so
\* the returned counts of the reads plus written_bytes sum to those of the
\* writes); a pipe_write that transfers data returns min(n, PIPE_BUFFER_SIZE -
\* written_bytes) and a pipe_read that does returns min(n, written_bytes).
C22_Conservation ==
    [][\A p \in PIPES :
          pipes'[p].alloc
          => /\ wlog'[p] = rlog'[p] \o unread(pipes'[p])
             /\ Len(rlog'[p]) + pipes'[p].written_bytes = Len(wlog'[p])
             /\ wlog'[p] # wlog[p]
                => /\ ev'.op = "write"
                   /\ ev'.ret = Min(ev'.n, PIPE_BUFFER_SIZE - pipes[p].written_bytes)
                   /\ Len(wlog'[p]) = Len(wlog[p]) + ev'.ret
                   /\ rlog'[p] = rlog[p]
             /\ rlog'[p] # rlog[p]
                => /\ ev'.op = "read"
                   /\ ev'.ret = Min(ev'.n, pipes[p].written_bytes)
                   /\ Len(rlog'[p]) = Len(rlog[p]) + ev'.ret
                   /\ wlog'[p] = wlog[p]]_vars

\* Pipe 1 has taken all the bytes the model writes; some are read and some
\* are still in the ring.
C22_Witness ==
    /\ Len(wlog[1]) = MaxWritten
    /\ Len(rlog[1]) >= 1
    /\ pipes[1].written_bytes >= 1

\* The nodes of the ring of P that hold the unread bytes.
unread_nodes(P) == {(P.r_position + i) % PIPE_BUFFER_SIZE : i \in 0..(P.written_bytes - 1)}

\* C30: after every step every node outside the unread region of a ring is
\* '\0', and a step that raises written_bytes is a pipe_write that returns
\* the number of bytes it added: none ends with -1 after having copied.
C30_NoOverwrite ==
    [][\A p \in PIPES :
          pipes'[p].alloc
          => /\ \A i \in Nodes \ unread_nodes(pipes'[p]) : pipes'[p].BUFFER[i] = 0
             /\ (\/ pipes'[p].w_position # pipes[p].w_position
                 \/ pipes'[p].written_bytes > pipes[p].written_bytes)
                => /\ ev'.op = "write"
                   /\ ev'.ret = pipes'[p].written_bytes - pipes[p].written_bytes
                   /\ ev'.ret > 0]_vars

\* A pipe_write has just filled nodes of pipe 1 that held bytes before: it
\* wrote past the end of the ring.
C30_Witness ==
    /\ ev.op = "write"
    /\ ev.ret > 0
    /\ Len(wlog[1]) > PIPE_BUFFER_SIZE
    /\ pipes[1].written_bytes = PIPE_BUFFER_SIZE

\* ------------------------------------------------------------------ claims on the life of a pipe
\* C23: a pipe is freed by the step that leaves both its ends NULL, a Close
\* that found one end still open, and by no other; once freed it is never
\* touched again: no socket with a pipe field on it, no call of pipe_read or
\* pipe_write in progress on it, and no use of freed memory.
C23_PipeFreedOnce ==
    [][\A p \in PIPES :
          /\ pipes[p].freed => pipes'[p] = pipes[p]
          /\ (pipes'[p].freed /\ ~pipes[p].freed)
             => /\ pipes[p].alloc
                /\ (pipes[p].reader = NULL) # (pipes[p].writer = NULL)
                /\ ev' = Returned("main", "Close", 0, 0)
          /\ (pipes'[p].alloc /\ pipes'[p].reader = NULL /\ pipes'[p].writer = NULL)
             <=> pipes'[p].freed
          /\ pipes'[p].freed
             => /\ \A x \in SOCKS :
                      (socks'[x].alloc /\ ~socks'[x].freed)
                      => socks'[x].read_pipe # p /\ socks'[x].write_pipe # p
                /\ \A t \in PipeThreads :
                      pth'[t].pc # "idle" => pth'[t].pipe # p
          /\ ub' # "use_after_free"]_vars

\* Both sockets of the pair are closed after bytes went through pipe 1, and
\* both pipes are freed.
C23_Witness ==
    /\ pipes[1].freed
    /\ pipes[2].freed
    /\ wlog[1] # <<>>
    /\ FT[1] = NULL
    /\ FT[2] = NULL

\* ------------------------------------------------------------------ claims on listeners of one port
\* The socket objects in memory that are listeners bound to port q.
listeners_of(q) ==
    {x \in SOCKS : /\ socks[x].alloc
                   /\ ~socks[x].freed
                   /\ socks[x].type = "LISTENER"
                   /\ socks[x].port = q}

\* C24: for every port at most one socket is a listener bound to it, and
\* the port's entry of PORT_MAP is empty or that socket.
C24_OneListenerPerPort ==
    \A q \in Ports :
       /\ Cardinality(listeners_of(q)) <= 1
       /\ PORT_MAP[q] = NULL \/ PORT_MAP[q] \in listeners_of(q)

\* ------------------------------------------------------------------ claims on the wiring of peers
\* The socket behind the FCB of descriptor f, NULL if the descriptor is free.
socket_of(f) == IF f \in Fids THEN FT[f] ELSE NULL

\* C25: every pipe with both ends open joins two sockets with open
\* descriptors: its writer is the FCB of the socket whose write_pipe it is and
\* its reader the FCB of the socket whose read_pipe it is; the two pipes of a
\* peer socket are distinct.
C25_PeersCrossWired ==
    /\ \A p \in PIPES :
          (live(p) /\ pipes[p].reader # NULL /\ pipes[p].writer # NULL)
          => /\ socket_of(pipes[p].writer) # NULL
             /\ socket_of(pipes[p].reader) # NULL
             /\ socks[socket_of(pipes[p].writer)].write_pipe = p
             /\ socks[socket_of(pipes[p].reader)].read_pipe = p
    /\ \A x \in SOCKS :
          (socks[x].alloc /\ ~socks[x].freed /\ socks[x].type = "PEER"
           /\ socks[x].read_pipe # NULL)
          => socks[x].read_pipe # socks[x].write_pipe

\* ------------------------------------------------------------------ claims on the references of a PTCB
\* The threads inside ThreadJoin(T): asleep in its wait loop or woken and not
\* yet resumed.
joiners(T) ==
    {j \in PTCBS : /\ ptcbs[j].alloc
                   /\ ~ptcbs[j].freed
                   /\ ptcbs[j].pc \in {"join_wait", "join_ready"}
                   /\ ptcbs[j].target = T}

\* PTCB T exists: allocated and not freed.
live_ptcb(T) == ptcbs[T].alloc /\ ~ptcbs[T].freed

\* C26: the refcount of every PTCB is the number of threads inside ThreadJoin
\* on it, plus one for the thread itself as long as it has not exited.
C26_Refcount ==
    \A T \in PTCBS :
       live_ptcb(T)
       => ptcbs[T].refcount
             = (IF ptcbs[T].exited = 1 THEN 0 ELSE 1) + Cardinality(joiners(T))

\* C26 as stated: the refcount of every PTCB is one plus the number of threads
\* inside ThreadJoin on it, exited or not.
C26_RefcountLiteral ==
    \A T \in PTCBS :
       live_ptcb(T) => ptcbs[T].refcount = 1 + Cardinality(joiners(T))

\* An exited thread that one thread is still inside ThreadJoin on.
C26_Witness ==
    /\ \E T \in PTCBS : live_ptcb(T) /\ ptcbs[T].exited = 1 /\ joiners(T) # {}
                          /\ ptcbs[T].refcount = 1

\* C27: a PTCB is unlinked and freed exactly when its refcount reaches 0 with
\* exited set: after every step no PTCB that still exists has exited and a
\* refcount of 0, and a step frees a PTCB only by taking its last reference
\* when the thread has exited or is exiting, unlinking it as well.
C27_FreedExactlyAtZero ==
    [][\A T \in PTCBS :
          /\ live_ptcb(T)' => ~(ptcbs'[T].exited = 1 /\ ptcbs'[T].refcount = 0)
          /\ (live_ptcb(T) /\ ptcbs'[T].freed)
             => /\ ptcbs[T].refcount = 1
                /\ \/ ptcbs[T].exited = 1
                   \/ ev' = Returned(T, "ThreadExit", 0, 0)
                /\ ~rlist_find(T)']_vars

\* ------------------------------------------------------------------ claims on thread_count
\* The PTCBs of the process whose thread has not exited.
not_exited == {T \in PTCBS : live_ptcb(T) /\ ptcbs[T].exited = 0}

\* C28: after every step thread_count is the number of PTCBs of the process
\* with exited clear; CreateThread adds one to it, ThreadExit takes one from
\* it, ThreadJoin and ThreadDetach leave it as it is.
C28_ThreadCount ==
    [][/\ thread_count' = Cardinality(not_exited')
       /\ \A c \in PTCBS :
             cur_thread(c)
             => /\ \A a \in TaskArgs :
                      sys_CreateThread(c, 1, a[1], a[2])
                      => thread_count' = thread_count + 1
                /\ \A v \in ExitVals :
                      sys_ThreadExit(c, v) => thread_count' = thread_count - 1
                /\ \A tid \in Tids :
                      (sys_ThreadJoin(c, tid) \/ sys_ThreadDetach(c, tid))
                      => thread_count' = thread_count
       /\ \A c \in PTCBS :
             sys_ThreadJoin_resume(c) => thread_count' = thread_count]_vars

\* One thread of three has exited and its PTCB is still there.
C28_Witness ==
    /\ ev.op = "ThreadExit"
    /\ thread_count = 2
    /\ \E T \in PTCBS : live_ptcb(T) /\ ptcbs[T].exited = 1
    /\ \A T \in PTCBS : ptcbs[T].alloc

\* ------------------------------------------------------------------ claims on the exit of a thread
\* C29: the step of ThreadExit(v) that wakes the sleepers of the caller's
\* exit_cv leaves exited set and v recorded in its PTCB; from then on, as long
\* as the PTCB exists, exited stays set and exitval stays v; the PTCB exists as
\* long as a thread is inside ThreadJoin on it; so a joiner resumed once its
\* target has exited returns with the target's exit value stored.
C29_ExitVisible ==
    [][/\ \A T \in PTCBS :
             cur_thread(T)
             => \A v \in ExitVals :
                   sys_ThreadExit(T, v)
                   => /\ live_ptcb(T)' => ptcbs'[T].exited = 1 /\ ptcbs'[T].exitval = v
                      /\ \A j \in PTCBS :
                            (ptcbs[j].pc = "join_wait" /\ ptcbs[j].cv = T)
                            => ptcbs'[j].pc = "join_ready"
       /\ \A T \in PTCBS :
             (live_ptcb(T) /\ ptcbs[T].exited = 1 /\ live_ptcb(T)')
             => ptcbs'[T].exited = 1 /\ ptcbs'[T].exitval = ptcbs[T].exitval
       /\ \A T \in PTCBS : joiners(T)' # {} => live_ptcb(T)'
       /\ \A j \in PTCBS :
             (/\ ptcbs[j].pc = "join_ready"
              /\ ptcbs[ptcbs[j].target].exited = 1
              /\ sys_ThreadJoin_resume(j))
             => /\ ptcbs'[j].stored
                /\ ptcbs'[j].out = ptcbs[ptcbs[j].target].exitval]_vars

\* A joiner has been resumed after its target exited with 42, and has the
\* value; another thread is still inside ThreadJoin on the target, and the
\* joiner joined no detached thread.
C29_Witness ==
    \E j \in PTCBS :
       /\ ev = Returned(j, "ThreadJoin", 0, 0)
       /\ ptcbs[j].stored
       /\ ptcbs[j].out = 42
       /\ \A u \in PTCBS \ {j} : ptcbs[u].detached = 0
       /\ \E T \in PTCBS \ {j} :
             /\ live_ptcb(T)
             /\ ptcbs[T].exited = 1
             /\ ptcbs[T].exitval = 42
             /\ joiners(T) # {}

\* ------------------------------------------------------------------ claims on the return of Connect
\* The socket that made the request the connector t sleeps on.
requester(t) == reqs[sth[t].request].peer

\* Socket x exists: allocated and not freed.
live_socket(x) == socks[x].alloc /\ ~socks[x].freed

\* C31: when Connect returns 0 the connecting socket, if it still exists, is
\* a peer with a read pipe and a write pipe, distinct, whose reader and writer
\* ends are its own FCB.
C31_ConnectZeroMeansWired ==
    [][\A t \in ConnThreads :
          (/\ sth[t].pc = "ready_conn"
           /\ sys_Connect_resume(t)
           /\ ev' = Returned(t, "Connect", 0, 0)
           /\ live_socket(requester(t)))
          => LET c == socks[requester(t)]
             IN  /\ c.type = "PEER"
                 /\ c.read_pipe # NULL
                 /\ c.write_pipe # NULL
                 /\ c.read_pipe # c.write_pipe
                 /\ pipes[c.read_pipe].reader = c.fcb
                 /\ pipes[c.write_pipe].writer = c.fcb]_vars

\* The requests of the Connect calls that have not returned yet.
requests_in_progress ==
    {sth[t].request : t \in {u \in ConnThreads : sth[u].pc \in {"wait_conn", "ready_conn"}}}

\* C32: every request in the queue of a listener is the request of a Connect
\* call that has not returned: a Connect that has returned has left nothing
\* for a later Accept to pop.
C32_ReturnedConnectLeavesNoRequest ==
    \A x \in SOCKS :
       (live_socket(x) /\ socks[x].type = "LISTENER")
       => \A i \in 1..Len(socks[x].queue) : socks[x].queue[i] \in requests_in_progress

\* ------------------------------------------------------------------ claims on the references of a listener
\* The Accept and Connect calls in progress on socket x.
calls_in_progress(x) ==
    {t \in SockThreads : /\ sth[t].pc \in {"wait_req", "ready_req", "wait_conn", "ready_conn"}
                         /\ sth[t].listener = x}

\* C33: the refcount of every listener is the number of Accept and Connect
\* calls in progress on it, so 0 when there is none.
C33_ListenerRefcount ==
    \A x \in SOCKS :
       (live_socket(x) /\ socks[x].type = "LISTENER")
       => socks[x].refcount = Cardinality(calls_in_progress(x))

\* ------------------------------------------------------------------ claims on the range of ports
\* C34: a Listen on a socket that Socket(p) bound to a port never reads or
\* writes outside PORT_MAP, and when it returns 0 the port is one that Connect
\* takes as legal, 1 <= p <= MAX_PORT - 1.
C34_ListenPortInTable ==
    [][\A fid \in Fids :
          (/\ get_fcb(fid) # NULL
           /\ socks[get_fcb(fid)].port # NOPORT
           /\ sys_Listen(fid))
          => /\ ub' # "out_of_bounds"
             /\ ev' = Returned("main", "Listen", 0, 0)
                => ~port_is_illegal(socks[get_fcb(fid)].port)]_vars

====
